---- MODULE Spec2Model ----
(***************************************************************************)
(* libsparkypi: a Transmission (sequence, pulse_length, repeats, protocol) *)
(* is played out on a gpio line by Transmission::send_to, rendered as a    *)
(* comma separated record by Transmission::csv_as_bytes, and assembled by  *)
(* TransmissionBuilder / ProtocolBuilder.                                  *)
(*                                                                         *)
(* A String is a sequence of characters, a character is its code point,    *)
(* a byte vector is a sequence of numbers 0..255.                          *)
(***************************************************************************)
EXTENDS Integers, Sequences, FiniteSets, TLC

VARIABLES
    tx,       \* the Transmission send_to / csv_as_bytes is called on (&self)
    pc,       \* position of the send_to call
    rep,      \* iterations of `for _ in 0..self.repeats` entered so far
    idx,      \* characters of `self.sequence.chars()` taken in this repeat
    ph,       \* next step (1..4) of the send_bit / send_sync_bit call running
    level,    \* level of the requested line, -1 while no line is held
    trace,    \* every set_value call and every thread::sleep, in order
    result,   \* "running", "Ok" or "Err": what send_to returned
    err,      \* the gpio_cdev::Error returned, "none" otherwise
    csvOut,   \* the Vec<u8> returned by csv_as_bytes, <<>> before the call
    b,        \* the builder a fluent chain is working on
    lastSet,  \* for every field of b, the value the chain last gave it
    ret       \* what the last call of the chain returned, when it was build()

vars == <<tx, pc, rep, idx, ph, level, trace, result, err, csvOut, b, lastSet, ret>>

sendVars == <<pc, rep, idx, ph, level, trace, result, err>>
buildVars == <<b, lastSet, ret>>

----------------------------------------------------------------------------
(* Bounds of the model *)

MaxLen == 3          \* longest sequence sent
MaxRepeats == 2      \* largest repeats sent
MaxCsvLen == 2       \* longest sequence serialised

----------------------------------------------------------------------------
(* Characters and presets *)

CharOne == 49        \* '1'
CharZero == 48       \* '0'
CharS == 115         \* 's', the customary sync character
CharComma == 44      \* ','

ProtocolProperties(s, l, sb, sg) ==
    [short |-> s, long |-> l, sync_bit |-> sb, sync_gap |-> sg]

ProtocolDefault == ProtocolProperties(0, 0, 0, 0)
P1 == ProtocolProperties(1, 3, 1, 31)
P2 == ProtocolProperties(1, 2, 1, 10)
XEN == ProtocolProperties(1, 2, 1, 11)
\* a caller's protocol: four different factors, zero and the u8 maximum among them
Wide == ProtocolProperties(2, 255, 0, 7)

Transmission(seq, pl, r, pr) ==
    [sequence |-> seq, pulse_length |-> pl, repeats |-> r, protocol |-> pr]

TransmissionDefault == Transmission(<<>>, 0, 0, ProtocolDefault)

RECURSIVE SeqsUpTo(_, _)
SeqsUpTo(S, n) ==
    IF n = 0 THEN {<<>>}
    ELSE LET shorter == SeqsUpTo(S, n - 1)
         IN  shorter \cup {Append(s, c) : s \in {t \in shorter : Len(t) = n - 1}, c \in S}

Errors == {"EACCES", "EIO"}

----------------------------------------------------------------------------
(* send_bit, send_sync_bit and the dispatch of send_to *)

\* pulse_length as u64 * factor as u64: both operands are widened before the
\* multiplication. The u64 product is taken modulo 2^64, which a u16 times a
\* u8 (at most 65535 * 255 < 2^24) never reaches, so no reduction is written.
\* MicrosWrap16 is the product taken in the width of pulse_length instead.
MicrosWrap16(pulse_length, factor) == (pulse_length * factor) % 65536
Micros(pulse_length, factor) == pulse_length * factor

set_value(v) == [op |-> "set", arg |-> v]
sleep(us) == [op |-> "sleep", arg |-> us]

send_bit_Inverted(bit, pulse_length, factor1, factor2) ==
    IF bit
    THEN << set_value(0), sleep(Micros(pulse_length, factor1)),
            set_value(1), sleep(Micros(pulse_length, factor2)) >>
    ELSE << set_value(0), sleep(Micros(pulse_length, factor2)),
            set_value(1), sleep(Micros(pulse_length, factor1)) >>
send_bit(bit, pulse_length, factor1, factor2) ==
    IF bit
    THEN << set_value(1), sleep(Micros(pulse_length, factor1)),
            set_value(0), sleep(Micros(pulse_length, factor2)) >>
    ELSE << set_value(1), sleep(Micros(pulse_length, factor2)),
            set_value(0), sleep(Micros(pulse_length, factor1)) >>

send_sync_bit_LowFirst(pulse_length, factor1, factor2) ==
    << set_value(0), sleep(Micros(pulse_length, factor2)),
       set_value(1), sleep(Micros(pulse_length, factor1)) >>
send_sync_bit_Swapped(pulse_length, factor1, factor2) ==
    << set_value(1), sleep(Micros(pulse_length, factor1)),
       set_value(0), sleep(Micros(pulse_length, factor2)) >>
send_sync_bit(pulse_length, factor1, factor2) ==
    << set_value(1), sleep(Micros(pulse_length, factor2)),
       set_value(0), sleep(Micros(pulse_length, factor1)) >>

send_char_NoZero(self, c) ==
    IF c = CharOne
    THEN send_bit(TRUE, self.pulse_length, self.protocol.long, self.protocol.short)
    ELSE send_sync_bit(self.pulse_length, self.protocol.sync_gap, self.protocol.sync_bit)
\* the body of `for c in self.sequence.chars()`
send_char(self, c) ==
    IF c = CharOne
    THEN send_bit(TRUE, self.pulse_length, self.protocol.long, self.protocol.short)
    ELSE IF c = CharZero
    THEN send_bit(FALSE, self.pulse_length, self.protocol.long, self.protocol.short)
    ELSE send_sync_bit(self.pulse_length, self.protocol.sync_gap, self.protocol.sync_bit)

CurChar == tx.sequence[idx]
CurStep == send_char(tx, CurChar)[ph]

----------------------------------------------------------------------------
(* Transmission::send_to *)

SendAlphabet == {CharOne, CharZero, CharS}
PulseLengths == {0, 100, 320, 65535}
SendProtocols == {P1, Wide, ProtocolDefault}

Init ==
    /\ tx \in {Transmission(s, pl, r, pr) :
                 s \in SeqsUpTo(SendAlphabet, MaxLen), pl \in PulseLengths,
                 r \in 0..MaxRepeats, pr \in SendProtocols}
    /\ pc = "chip"
    /\ rep = 0
    /\ idx = 0
    /\ ph = 0
    /\ level = -1
    /\ trace = <<>>
    /\ result = "running"
    /\ err = "none"
    /\ csvOut = <<>>
    /\ b = [kind |-> "none"]
    /\ lastSet = [kind |-> "none"]
    /\ ret = <<>>

\* the `?` of a failed call: send_to returns the error as it is
Fail(e) ==
    /\ result' = "Err"
    /\ err' = e
    /\ pc' = "done"

ChipNewOk ==
    /\ pc = "chip"
    /\ pc' = "line"
    /\ UNCHANGED <<tx, rep, idx, ph, level, trace, result, err, csvOut, b, lastSet, ret>>

ChipNewErr ==
    /\ pc = "chip"
    /\ \E e \in Errors : Fail(e)
    /\ UNCHANGED <<tx, rep, idx, ph, level, trace, csvOut, b, lastSet, ret>>

GetLineOk ==
    /\ pc = "line"
    /\ pc' = "request"
    /\ UNCHANGED <<tx, rep, idx, ph, level, trace, result, err, csvOut, b, lastSet, ret>>

GetLineErr ==
    /\ pc = "line"
    /\ \E e \in Errors : Fail(e)
    /\ UNCHANGED <<tx, rep, idx, ph, level, trace, csvOut, b, lastSet, ret>>

\* request(LineRequestFlags::OUTPUT, 0, "tx"): the default value of the line
RequestDefault == 0

RequestOk ==
    /\ pc = "request"
    /\ level' = RequestDefault
    /\ pc' = "outer"
    /\ UNCHANGED <<tx, rep, idx, ph, trace, result, err, csvOut, b, lastSet, ret>>

RequestErr ==
    /\ pc = "request"
    /\ \E e \in Errors : Fail(e)
    /\ UNCHANGED <<tx, rep, idx, ph, level, trace, csvOut, b, lastSet, ret>>

OuterNext_AtLeastOnce ==
    /\ pc = "outer"
    /\ rep <= tx.repeats
    /\ rep' = rep + 1
    /\ idx' = 0
    /\ pc' = "inner"
    /\ UNCHANGED <<tx, ph, level, trace, result, err, csvOut, b, lastSet, ret>>
\* for _ in 0..self.repeats
OuterNext ==
    /\ pc = "outer"
    /\ rep < tx.repeats
    /\ rep' = rep + 1
    /\ idx' = 0
    /\ pc' = "inner"
    /\ UNCHANGED <<tx, ph, level, trace, result, err, csvOut, b, lastSet, ret>>

OuterExit_RejectEmpty ==
    /\ pc = "outer"
    /\ rep >= tx.repeats
    /\ result' = IF trace = <<>> THEN "Err" ELSE "Ok"
    /\ err' = IF trace = <<>> THEN "EINVAL" ELSE err
    /\ pc' = "done"
    /\ UNCHANGED <<tx, rep, idx, ph, level, trace, csvOut, b, lastSet, ret>>
\* the range is exhausted: Ok(())
OuterExit ==
    /\ pc = "outer"
    /\ rep >= tx.repeats
    /\ result' = "Ok"
    /\ pc' = "done"
    /\ UNCHANGED <<tx, rep, idx, ph, level, trace, err, csvOut, b, lastSet, ret>>

\* for c in self.sequence.chars(): the call of send_bit / send_sync_bit
InnerNext ==
    /\ pc = "inner"
    /\ idx < Len(tx.sequence)
    /\ idx' = idx + 1
    /\ ph' = 1
    /\ pc' = "body"
    /\ UNCHANGED <<tx, rep, level, trace, result, err, csvOut, b, lastSet, ret>>

InnerExit ==
    /\ pc = "inner"
    /\ idx >= Len(tx.sequence)
    /\ pc' = "outer"
    /\ UNCHANGED <<tx, rep, idx, ph, level, trace, result, err, csvOut, b, lastSet, ret>>

Call(ok, e) ==
    [op |-> "set", arg |-> CurStep.arg, ok |-> ok, err |-> e, rep |-> rep, idx |-> idx]

\* lh.set_value(v)? succeeds
SetValueOk ==
    /\ pc = "body"
    /\ ph <= 4
    /\ CurStep.op = "set"
    /\ level' = CurStep.arg
    /\ trace' = Append(trace, Call(TRUE, "none"))
    /\ ph' = ph + 1
    /\ UNCHANGED <<tx, pc, rep, idx, result, err, csvOut, b, lastSet, ret>>

SetValueErr_Ignored ==
    /\ pc = "body"
    /\ ph <= 4
    /\ CurStep.op = "set"
    /\ \E e \in Errors : trace' = Append(trace, Call(FALSE, e))
    /\ ph' = ph + 1
    /\ UNCHANGED <<tx, pc, rep, idx, level, result, err, csvOut, b, lastSet, ret>>
\* lh.set_value(v)? fails: the request is refused, the line keeps the level
\* it had, and the ? hands the error to send_to's caller
SetValueErr ==
    /\ pc = "body"
    /\ ph <= 4
    /\ CurStep.op = "set"
    /\ \E e \in Errors :
         /\ trace' = Append(trace, Call(FALSE, e))
         /\ Fail(e)
    /\ UNCHANGED <<tx, rep, idx, ph, level, csvOut, b, lastSet, ret>>

\* thread::sleep(time::Duration::from_micros(..))
ThreadSleep ==
    /\ pc = "body"
    /\ ph <= 4
    /\ CurStep.op = "sleep"
    /\ trace' = Append(trace, [op |-> "sleep", arg |-> CurStep.arg, ok |-> TRUE,
                               err |-> "none", rep |-> rep, idx |-> idx])
    /\ ph' = ph + 1
    /\ UNCHANGED <<tx, pc, rep, idx, level, result, err, csvOut, b, lastSet, ret>>

\* Ok(()) of send_bit / send_sync_bit
BitReturn ==
    /\ pc = "body"
    /\ ph > 4
    /\ pc' = "inner"
    /\ UNCHANGED <<tx, rep, idx, ph, level, trace, result, err, csvOut, b, lastSet, ret>>

Next ==
    \/ ChipNewOk \/ ChipNewErr
    \/ GetLineOk \/ GetLineErr
    \/ RequestOk \/ RequestErr
    \/ OuterNext \/ OuterExit
    \/ InnerNext \/ InnerExit
    \/ SetValueOk \/ SetValueErr
    \/ ThreadSleep
    \/ BitReturn

Spec == Init /\ [][Next]_vars


----------------------------------------------------------------------------
(* What a run of send_to has done so far *)

IsSet(e) == e.op = "set"
IsSleep(e) == e.op = "sleep"
SetCalls == SelectSeq(trace, IsSet)
Sleeps == SelectSeq(trace, IsSleep)
NCalls == Len(SetCalls)
N == Len(tx.sequence)
R == tx.repeats
FailedCalls == {k \in 1..NCalls : ~SetCalls[k].ok}
LineHeld == level # -1

RECURSIVE SumArgs(_)
SumArgs(s) == IF s = <<>> THEN 0 ELSE s[1].arg + SumArgs(Tail(s))

\* the factors the specification's table gives a character
HighFactor(c) ==
    IF c = CharOne THEN tx.protocol.long
    ELSE IF c = CharZero THEN tx.protocol.short
    ELSE tx.protocol.sync_bit
LowFactor(c) ==
    IF c = CharOne THEN tx.protocol.short
    ELSE IF c = CharZero THEN tx.protocol.long
    ELSE tx.protocol.sync_gap

RECURSIVE SumFactors(_)
SumFactors(s) ==
    IF s = <<>> THEN 0
    ELSE HighFactor(s[1]) + LowFactor(s[1]) + SumFactors(Tail(s))

\* the four events of the symbol that starts at trace position k
Symbol(k) == SubSeq(trace, k, k + 3)
SymbolStarts == {k \in 1..Len(trace) : k % 4 = 1 /\ k + 3 <= Len(trace)}

----------------------------------------------------------------------------
(* C1: for every character c of the sequence send_to emits exactly        *)
(* (set 1, wait H), (set 0, wait L) with (H, L) = (pl*long, pl*short) for  *)
(* '1', (pl*short, pl*long) for '0' and (pl*sync_bit, pl*sync_gap) for     *)
(* any other character.                                                    *)
C1_SymbolPair ==
    /\ \A k \in SymbolStarts :
         LET s == Symbol(k)
             c == tx.sequence[s[1].idx]
             H == IF c = CharOne THEN tx.pulse_length * tx.protocol.long
                  ELSE IF c = CharZero THEN tx.pulse_length * tx.protocol.short
                  ELSE tx.pulse_length * tx.protocol.sync_bit
             L == IF c = CharOne THEN tx.pulse_length * tx.protocol.short
                  ELSE IF c = CharZero THEN tx.pulse_length * tx.protocol.long
                  ELSE tx.pulse_length * tx.protocol.sync_gap
         IN  /\ s[1].op = "set" /\ s[1].arg = 1
             /\ s[2].op = "sleep" /\ s[2].arg = H
             /\ s[3].op = "set" /\ s[3].arg = 0
             /\ s[4].op = "sleep" /\ s[4].arg = L
             /\ \A i \in 1..4 : s[i].idx = s[1].idx /\ s[i].rep = s[1].rep
    \* every character taken has had its four events once its call returned
    /\ (pc \in {"inner", "outer"} /\ rep > 0) =>
         Len(trace) = 4 * ((rep - 1) * N + idx)

C1_Witness ==
    /\ result = "Ok"
    /\ tx.sequence = <<CharS, CharZero, CharOne>>
    /\ tx.protocol = Wide
    /\ tx.pulse_length = 100
    /\ R = 2
    /\ Len(trace) = 24

(* C2: when the k-th set_value call fails, send_to returns that error at   *)
(* once: exactly k calls were made, nothing follows the failed call, and   *)
(* there is no retry.                                                      *)
C2_FaultAborts ==
    \A k \in FailedCalls :
        /\ k = NCalls
        /\ trace[Len(trace)] = SetCalls[k]
        /\ pc = "done"
        /\ result = "Err"
        /\ err = SetCalls[k].err

C2_Witness ==
    /\ NCalls = 3
    /\ FailedCalls = {3}
    /\ result = "Err"
    /\ R = 2
    /\ N = 3

(* C3, as claimed: with repeats = 0 send_to makes no set_value call and    *)
(* returns success.                                                        *)
C3_Original ==
    (R = 0 /\ pc = "done") => (NCalls = 0 /\ result = "Ok")

(* C3, amended: with repeats = 0 send_to makes no set_value call, and      *)
(* returns success whenever the chip was opened and the line requested;    *)
(* it returns an error exactly when that acquisition failed.               *)
C3_ZeroRepeats ==
    R = 0 =>
        /\ NCalls = 0
        /\ trace = <<>>
        /\ pc = "done" => (result = "Ok" <=> LineHeld)
        /\ pc = "done" => (result = "Err" <=> ~LineHeld)

C3_Witness ==
    /\ R = 0
    /\ N = 3
    /\ pc = "done"
    /\ result = "Ok"
    /\ LineHeld

(* C4: a fault-free run with N characters and R > 0 repeats ends having    *)
(* made exactly 2*N*R set_value calls (none when the sequence is empty),   *)
(* and never makes more on the way.                                        *)
C4_CallCount ==
    /\ (R > 0 /\ result = "Ok") => NCalls = 2 * N * R
    /\ (R > 0 /\ result = "Ok" /\ N = 0) => NCalls = 0
    /\ NCalls <= 2 * N * R
    /\ (pc # "done") => ENABLED Next

C4_Witness ==
    /\ result = "Ok"
    /\ R = 2
    /\ N = 3
    /\ NCalls = 12

(* C5: the j-th set_value call (from 0) belongs to character number        *)
(* (j div 2) mod N, of repeat j div 2N, sets 1 when j is even and 0 when   *)
(* j is odd; a run that succeeds has made all of them, none skipped or     *)
(* merged.                                                                 *)
C5_Order ==
    /\ \A k \in 1..NCalls :
         LET j == k - 1
         IN  /\ SetCalls[k].idx = ((j \div 2) % N) + 1
             /\ SetCalls[k].rep = (j \div (2 * N)) + 1
             /\ SetCalls[k].arg = (IF j % 2 = 0 THEN 1 ELSE 0)
    /\ result = "Ok" => NCalls = 2 * N * R

C5_Witness ==
    /\ result = "Ok"
    /\ tx = Transmission(<<CharS, CharZero>>, 320, 2, P1)
    /\ [k \in 1..Len(trace) |-> trace[k].arg]
         = <<1, 320, 0, 9920, 1, 320, 0, 960, 1, 320, 0, 9920, 1, 320, 0, 960>>

(* C6: every delay is the exact product pulse_length * factor, at most     *)
(* 16,711,425, with no wrap-around; a zero pulse_length or factor gives a  *)
(* zero delay and is not rejected.                                         *)
C6_ExactProduct ==
    /\ \A k \in 1..Len(trace) :
         trace[k].op = "sleep" =>
           LET c == tx.sequence[trace[k].idx]
               f == IF k % 4 = 2 THEN HighFactor(c) ELSE LowFactor(c)
           IN  /\ trace[k].arg = tx.pulse_length * f
               /\ trace[k].arg >= 0
               /\ trace[k].arg <= 16711425
               /\ (tx.pulse_length = 0 \/ f = 0) => trace[k].arg = 0
    \* the only errors are the device's
    /\ result = "Err" => (~LineHeld \/ FailedCalls # {})

C6_Witness ==
    /\ result = "Ok"
    /\ tx.pulse_length = 65535
    /\ tx.protocol = Wide
    /\ \E k \in 1..Len(trace) : trace[k].op = "sleep" /\ trace[k].arg = 16711425
    /\ \E k \in 1..Len(trace) : trace[k].op = "sleep" /\ trace[k].arg = 0

ScenarioA == Transmission(<<CharOne, CharZero, CharOne>>, 100, 1, P1)

(* C7, as claimed: in a fault-free run the delays add up to pulse_length * *)
(* repeats * the sum over the characters of short + long for '1' and '0'   *)
(* and of sync_bit + sync_gap for any other character; "101" with          *)
(* pulse_length 100, repeats 1, short 1, long 3 gives 6 events totalling   *)
(* 1100 microseconds.                                                      *)
C7_Original ==
    /\ result = "Ok" =>
         SumArgs(Sleeps) = tx.pulse_length * R * SumFactors(tx.sequence)
    /\ (result = "Ok" /\ tx = ScenarioA) =>
         (NCalls = 6 /\ SumArgs(Sleeps) = 1100)

(* C7, amended: the same sum, and "101" with pulse_length 100, repeats 1,  *)
(* short 1, long 3 gives 6 events totalling 1200 microseconds.             *)
C7_TotalDelay ==
    /\ result = "Ok" =>
         SumArgs(Sleeps) = tx.pulse_length * R * SumFactors(tx.sequence)
    /\ (result = "Ok" /\ tx = ScenarioA) =>
         (NCalls = 6 /\ SumArgs(Sleeps) = 1200)

C7_Witness ==
    /\ result = "Ok"
    /\ tx = ScenarioA
    /\ NCalls = 6
    /\ Len(Sleeps) = 6
    /\ [k \in 1..6 |-> Sleeps[k].arg] = <<300, 100, 100, 300, 300, 100>>

(* C10: the line is requested at level 0 and is at 0 at every symbol       *)
(* boundary and on successful return; it is high only between a symbol's   *)
(* high set and its low set. A fault on an odd-numbered set_value call     *)
(* leaves the line low, one on an even-numbered call leaves it high.       *)
C10_LevelAtBoundaries ==
    /\ pc = "outer" /\ trace = <<>> => level = 0
    /\ pc \in {"outer", "inner"} => level = 0
    /\ pc = "body" /\ ph \in {1, 4, 5} => level = 0
    /\ result = "Ok" => level = 0
    /\ (level = 1 /\ result = "running") => (pc = "body" /\ ph \in {2, 3})
    /\ \A k \in FailedCalls : level = (IF k % 2 = 1 THEN 0 ELSE 1)

C10_Witness ==
    /\ result = "Err"
    /\ FailedCalls = {4}
    /\ level = 1
    /\ tx.sequence = <<CharOne, CharOne, CharS>>

----------------------------------------------------------------------------
(* Transmission::csv_as_bytes *)

\* Display of an unsigned integer: decimal digits, no sign, no leading zero
RECURSIVE DisplayInt(_)
DisplayInt(n) ==
    IF n < 10 THEN <<CharZero + n>>
    ELSE DisplayInt(n \div 10) \o <<CharZero + (n % 10)>>

\* the bytes of a String: UTF-8, one byte below U+0080, two below U+0800
RECURSIVE as_bytes(_)
as_bytes(str) ==
    IF str = <<>> THEN <<>>
    ELSE LET c == Head(str)
         IN  (IF c < 128 THEN <<c>> ELSE <<192 + (c \div 64), 128 + (c % 64)>>)
             \o as_bytes(Tail(str))

csv_as_bytes_LongFirst(self) ==
    as_bytes(self.sequence \o <<CharComma>>
             \o DisplayInt(self.pulse_length) \o <<CharComma>>
             \o DisplayInt(self.repeats) \o <<CharComma>>
             \o DisplayInt(self.protocol.long) \o <<CharComma>>
             \o DisplayInt(self.protocol.short) \o <<CharComma>>
             \o DisplayInt(self.protocol.sync_bit) \o <<CharComma>>
             \o DisplayInt(self.protocol.sync_gap))
\* format!("{},{},{},{},{},{},{}", ..).as_bytes().to_vec()
csv_as_bytes(self) ==
    as_bytes(self.sequence \o <<CharComma>>
             \o DisplayInt(self.pulse_length) \o <<CharComma>>
             \o DisplayInt(self.repeats) \o <<CharComma>>
             \o DisplayInt(self.protocol.short) \o <<CharComma>>
             \o DisplayInt(self.protocol.long) \o <<CharComma>>
             \o DisplayInt(self.protocol.sync_bit) \o <<CharComma>>
             \o DisplayInt(self.protocol.sync_gap))

\* 233 is U+00E9, a character outside ASCII
CsvAlphabet == {CharOne, CharZero, CharS, CharComma, 233}
CsvPulseLengths == {0, 7, 320, 65535}
CsvRepeats == {0, 10, 255}
CsvProtocols == {P1, P2, XEN, Wide, ProtocolDefault}

SendNotCalled ==
    /\ pc = "chip"
    /\ rep = 0
    /\ idx = 0
    /\ ph = 0
    /\ level = -1
    /\ trace = <<>>
    /\ result = "running"
    /\ err = "none"

NoBuilder ==
    /\ b = [kind |-> "none"]
    /\ lastSet = [kind |-> "none"]
    /\ ret = <<>>

InitCsv ==
    /\ tx \in {Transmission(s, pl, r, pr) :
                 s \in SeqsUpTo(CsvAlphabet, MaxCsvLen), pl \in CsvPulseLengths,
                 r \in CsvRepeats, pr \in CsvProtocols}
    /\ csvOut = <<>>
    /\ SendNotCalled
    /\ NoBuilder

CsvAsBytes ==
    /\ csvOut' = csv_as_bytes(tx)
    /\ UNCHANGED <<tx, sendVars, buildVars>>

NextCsv == CsvAsBytes

SpecCsv == InitCsv /\ [][NextCsv]_vars

(* The receiving side: split on commas, parse decimal fields *)

RECURSIVE SplitOn(_, _)
SplitOn(bytes, sep) ==
    IF \A k \in 1..Len(bytes) : bytes[k] # sep THEN <<bytes>>
    ELSE LET k == CHOOSE i \in 1..Len(bytes) :
                     bytes[i] = sep /\ \A m \in 1..(i - 1) : bytes[m] # sep
         IN  <<SubSeq(bytes, 1, k - 1)>> \o SplitOn(SubSeq(bytes, k + 1, Len(bytes)), sep)

IsDigit(x) == x >= 48 /\ x <= 57

RECURSIVE DigitsValue(_)
DigitsValue(f) ==
    IF f = <<>> THEN 0
    ELSE 10 * DigitsValue(SubSeq(f, 1, Len(f) - 1)) + (f[Len(f)] - 48)

\* the number a field spells, -1 when it is no decimal number
ParseDec(f) ==
    IF f # <<>> /\ \A k \in 1..Len(f) : IsDigit(f[k]) THEN DigitsValue(f) ELSE -1

RECURSIVE Utf8Decode(_)
Utf8Decode(bytes) ==
    IF bytes = <<>> THEN <<>>
    ELSE IF bytes[1] < 128 THEN <<bytes[1]>> \o Utf8Decode(Tail(bytes))
    ELSE IF Len(bytes) >= 2 /\ bytes[1] >= 192 /\ bytes[1] < 224
    THEN <<(bytes[1] - 192) * 64 + (bytes[2] - 128)>> \o Utf8Decode(Tail(Tail(bytes)))
    ELSE <<-1>>

HasComma(str) == \E k \in 1..Len(str) : str[k] = CharComma

(* C8: split on commas, the output of csv_as_bytes for a sequence without  *)
(* a comma has exactly seven fields; the first is the sequence and the     *)
(* other six parse to pulse_length, repeats, short, long, sync_bit and     *)
(* sync_gap. For any sequence the last six fields parse to those values.   *)
C8_RoundTrip ==
    csvOut # <<>> =>
        LET f == SplitOn(csvOut, CharComma)
            n == Len(f)
        IN  /\ n >= 7
            /\ ParseDec(f[n - 5]) = tx.pulse_length
            /\ ParseDec(f[n - 4]) = tx.repeats
            /\ ParseDec(f[n - 3]) = tx.protocol.short
            /\ ParseDec(f[n - 2]) = tx.protocol.long
            /\ ParseDec(f[n - 1]) = tx.protocol.sync_bit
            /\ ParseDec(f[n]) = tx.protocol.sync_gap
            /\ ~HasComma(tx.sequence) =>
                 (n = 7 /\ Utf8Decode(f[1]) = tx.sequence)

\* "s0,65535,10,1,3,1,31"
C8_Witness ==
    /\ tx = Transmission(<<CharS, CharZero>>, 65535, 10, P1)
    /\ csvOut = <<115, 48, 44, 54, 53, 53, 51, 53, 44, 49, 48, 44,
                  49, 44, 51, 44, 49, 44, 51, 49>>

----------------------------------------------------------------------------
(* TransmissionBuilder and ProtocolBuilder *)

TransmissionBuilderDefault ==
    [kind |-> "transmission", sequence |-> <<>>, pulse_length |-> 0,
     repeats |-> 0, protocol |-> ProtocolDefault]

ProtocolBuilderDefault ==
    [kind |-> "protocol", short |-> 0, long |-> 0, sync_bit |-> 0, sync_gap |-> 0]

TransmissionBuilder_sequence(self, seq) == [self EXCEPT !.sequence = seq]
TransmissionBuilder_pulse_length(self, pl) == [self EXCEPT !.pulse_length = pl]
TransmissionBuilder_repeats(self, r) == [self EXCEPT !.repeats = r]
TransmissionBuilder_protocol(self, pr) == [self EXCEPT !.protocol = pr]
TransmissionBuilder_build(self) ==
    Transmission(self.sequence, self.pulse_length, self.repeats, self.protocol)

ProtocolBuilder_short(self, v) == [self EXCEPT !.short = v]
ProtocolBuilder_long(self, v) == [self EXCEPT !.long = v]
ProtocolBuilder_sync_bit(self, v) == [self EXCEPT !.sync_bit = v]
ProtocolBuilder_sync_gap_WrongField(self, v) == [self EXCEPT !.sync_bit = v]
ProtocolBuilder_sync_gap(self, v) == [self EXCEPT !.sync_gap = v]
ProtocolBuilder_build(self) ==
    ProtocolProperties(self.short, self.long, self.sync_bit, self.sync_gap)

BuilderSequences == {<<>>, <<CharS, CharZero>>, <<CharOne, CharZero, CharOne>>}
BuilderPulseLengths == {0, 320, 65535}
BuilderRepeats == {0, 10, 255}
BuilderProtocols == {ProtocolDefault, P1, XEN, Wide}
BuilderFactors == {0, 1, 3, 31, 255}

InitBuilder ==
    /\ b \in {TransmissionBuilderDefault, ProtocolBuilderDefault}
    /\ lastSet = b
    /\ ret = <<>>
    /\ tx = TransmissionDefault
    /\ csvOut = <<>>
    /\ SendNotCalled

\* Transmission::builder()
NewTransmissionBuilder ==
    /\ b' = TransmissionBuilderDefault
    /\ lastSet' = TransmissionBuilderDefault
    /\ ret' = <<>>
    /\ UNCHANGED <<tx, csvOut, sendVars>>

\* ProtocolProperties::builder()
NewProtocolBuilder ==
    /\ b' = ProtocolBuilderDefault
    /\ lastSet' = ProtocolBuilderDefault
    /\ ret' = <<>>
    /\ UNCHANGED <<tx, csvOut, sendVars>>

SetSequence ==
    /\ b.kind = "transmission"
    /\ \E seq \in BuilderSequences :
         /\ b' = TransmissionBuilder_sequence(b, seq)
         /\ lastSet' = [lastSet EXCEPT !.sequence = seq]
    /\ ret' = <<>>
    /\ UNCHANGED <<tx, csvOut, sendVars>>

SetPulseLength ==
    /\ b.kind = "transmission"
    /\ \E pl \in BuilderPulseLengths :
         /\ b' = TransmissionBuilder_pulse_length(b, pl)
         /\ lastSet' = [lastSet EXCEPT !.pulse_length = pl]
    /\ ret' = <<>>
    /\ UNCHANGED <<tx, csvOut, sendVars>>

SetRepeats ==
    /\ b.kind = "transmission"
    /\ \E r \in BuilderRepeats :
         /\ b' = TransmissionBuilder_repeats(b, r)
         /\ lastSet' = [lastSet EXCEPT !.repeats = r]
    /\ ret' = <<>>
    /\ UNCHANGED <<tx, csvOut, sendVars>>

SetProtocol ==
    /\ b.kind = "transmission"
    /\ \E pr \in BuilderProtocols :
         /\ b' = TransmissionBuilder_protocol(b, pr)
         /\ lastSet' = [lastSet EXCEPT !.protocol = pr]
    /\ ret' = <<>>
    /\ UNCHANGED <<tx, csvOut, sendVars>>

BuildTransmission ==
    /\ b.kind = "transmission"
    /\ ret' = <<TransmissionBuilder_build(b)>>
    /\ UNCHANGED <<b, lastSet, tx, csvOut, sendVars>>

SetShort ==
    /\ b.kind = "protocol"
    /\ \E v \in BuilderFactors :
         /\ b' = ProtocolBuilder_short(b, v)
         /\ lastSet' = [lastSet EXCEPT !.short = v]
    /\ ret' = <<>>
    /\ UNCHANGED <<tx, csvOut, sendVars>>

SetLong ==
    /\ b.kind = "protocol"
    /\ \E v \in BuilderFactors :
         /\ b' = ProtocolBuilder_long(b, v)
         /\ lastSet' = [lastSet EXCEPT !.long = v]
    /\ ret' = <<>>
    /\ UNCHANGED <<tx, csvOut, sendVars>>

SetSyncBit ==
    /\ b.kind = "protocol"
    /\ \E v \in BuilderFactors :
         /\ b' = ProtocolBuilder_sync_bit(b, v)
         /\ lastSet' = [lastSet EXCEPT !.sync_bit = v]
    /\ ret' = <<>>
    /\ UNCHANGED <<tx, csvOut, sendVars>>

SetSyncGap ==
    /\ b.kind = "protocol"
    /\ \E v \in BuilderFactors :
         /\ b' = ProtocolBuilder_sync_gap(b, v)
         /\ lastSet' = [lastSet EXCEPT !.sync_gap = v]
    /\ ret' = <<>>
    /\ UNCHANGED <<tx, csvOut, sendVars>>

BuildProtocol ==
    /\ b.kind = "protocol"
    /\ ret' = <<ProtocolBuilder_build(b)>>
    /\ UNCHANGED <<b, lastSet, tx, csvOut, sendVars>>

NextBuilder ==
    \/ NewTransmissionBuilder \/ NewProtocolBuilder
    \/ SetSequence \/ SetPulseLength \/ SetRepeats \/ SetProtocol
    \/ BuildTransmission
    \/ SetShort \/ SetLong \/ SetSyncBit \/ SetSyncGap
    \/ BuildProtocol

SpecBuilder == InitBuilder /\ [][NextBuilder]_vars

(* C9: every setter changes its own field only, and build() returns in     *)
(* every field the value last set, zero or the empty string when none was; *)
(* no value is rejected; short(1).long(3).sync_bit(1).sync_gap(31).build() *)
(* is P1.                                                                  *)
C9_Builders ==
    /\ b = lastSet
    /\ (b.kind = "transmission" /\ ret # <<>>) =>
         /\ ret[1].sequence = lastSet.sequence
         /\ ret[1].pulse_length = lastSet.pulse_length
         /\ ret[1].repeats = lastSet.repeats
         /\ ret[1].protocol = lastSet.protocol
         /\ DOMAIN ret[1] = {"sequence", "pulse_length", "repeats", "protocol"}
    /\ (b.kind = "protocol" /\ ret # <<>>) =>
         /\ ret[1].short = lastSet.short
         /\ ret[1].long = lastSet.long
         /\ ret[1].sync_bit = lastSet.sync_bit
         /\ ret[1].sync_gap = lastSet.sync_gap
         /\ DOMAIN ret[1] = {"short", "long", "sync_bit", "sync_gap"}
    /\ (/\ b.kind = "protocol" /\ ret # <<>>
        /\ lastSet.short = 1 /\ lastSet.long = 3
        /\ lastSet.sync_bit = 1 /\ lastSet.sync_gap = 31) => ret[1] = P1
    /\ b.kind = "transmission" => ENABLED BuildTransmission
    /\ b.kind = "protocol" => ENABLED BuildProtocol

C9_Witness ==
    /\ b.kind = "protocol"
    /\ lastSet = [kind |-> "protocol", short |-> 1, long |-> 3,
                  sync_bit |-> 1, sync_gap |-> 31]
    /\ ret = <<P1>>

----------------------------------------------------------------------------
====
